---- MODULE Spec2Model ----
(***************************************************************************)
(* One control connection of the FTP server of src/src/lib.rs: the greeting *)
(* written by Connection::new, the command loop, and read_cmd with every    *)
(* arm of its match.  The control connection is modelled at the level of    *)
(* bytes: `reader` holds the bytes the client has sent and the server has   *)
(* not consumed yet, each byte a one-character string.  A client write      *)
(* delivers one whole line; the server's read of the 4-byte token takes     *)
(* min(4, available) bytes, as BufReader::read does.                        *)
(* A second session can run beside it (`parked`), and the reply codec and   *)
(* the mock servers of the tests are modelled on their own.                 *)
(* The interactive client of src/src/client.rs reads the replies of         *)
(* `writer` one read_cmd at a time.                                         *)
(***************************************************************************)
EXTENDS Integers, Sequences, FiniteSets, TLC

VARIABLES
    reader,           \* Connection.reader: bytes sent by the client, not yet consumed
    writer,           \* Connection.writer: the replies written so far, in order
    path,             \* Connection.path, as the segments of its string form
    username,         \* Connection.username: None or Some(accepted user name)
    data_type,        \* Connection.data_type
    data_structure,   \* Connection.data_structure
    transfer_mode,    \* Connection.transfer_mode
    data_connection,  \* Connection.data_connection: None or Some(open stream)
    dirs,             \* the filesystem: absolute paths of the directories
    files,            \* the filesystem: absolute paths of the regular files
    pc,               \* where the connection's thread is
    peer,             \* the client's end of the control connection
    data_out,         \* what was written to data connections, in order
    log,              \* history: one entry per run of read_cmd
    sent,             \* history: number of lines the client has written
    parked,           \* the Connection, client and history of the session whose
                      \* thread is not the one running
    response,         \* the code and the text given to write_response
    wire,             \* the bytes write_response has written
    received,         \* what the client's read_cmd made of the bytes
    MOCK_COUNT,       \* mock.rs: the static counter of mock servers
    mocks,            \* per test thread: how far MockFtpServer::new has got
    client_pc,        \* client.rs: where main is
    client_code,      \* client.rs: FtpConnection.code, the code read last
    client_read,      \* history: number of replies the client has read
    client_log        \* history: the lines the client has written, each with
                      \* the place in `writer` of the reply read after it

vars == << reader, writer, path, username, data_type, data_structure,
           transfer_mode, data_connection, dirs, files, pc, peer, data_out,
           log, sent, parked, response, wire, received, MOCK_COUNT, mocks,
           client_pc, client_code, client_read, client_log >>

\* the state outside the session whose thread is running: the other
\* session, the reply codec on its own, the mock servers of the tests, the
\* interactive client
Codec == << response, wire, received >>
Mocks == << MOCK_COUNT, mocks >>
Interactive == << client_pc, client_code, client_read, client_log >>
Elsewhere == << parked, Codec, Mocks, Interactive >>

(* ------------------------------ bounds -------------------------------- *)

\* lines the client writes in one session, when it may write any line
MaxSent == 2
\* lines the client writes in one session, when it writes login lines only
MaxSentLogin == 4
\* lines the client writes in one session, when it writes login and
\* directory lines only
MaxSentDir == 4
\* lines the client writes in one session, when it writes PORT and NLST
\* lines only
MaxSentPort == 3
\* lines the client writes in one session, when it writes MKD, RMD and
\* NLST lines only
MaxSentFs == 3
\* lines the client writes in one session, when it writes TYPE, STRU and
\* MODE lines only
MaxSentParams == 2
\* lines each client writes, when two sessions run side by side
MaxSentTwo == 1
\* lines of the text given to write_response
MaxTextLines == 3
\* lines the client writes in one session, when it changes directory and
\* makes and removes directories
MaxSentWd == 3
\* lines the interactive client writes
MaxSentClient == 5
\* runs of read_cmd in one session
MaxCmds == 6
\* test threads that call MockFtpServer::new
MaxTests == 3

(* ------------------------------ bytes --------------------------------- *)

\* Option<T>: None is the empty sequence, Some(x) the sequence of x alone
None == << >>
Some(x) == << x >>

\* the byte 0 that vec![0; 4] leaves where read() stored nothing
NUL == "NUL"
\* a byte (0xFF) that occurs in no UTF-8 encoding
BadByte == "xFF"

LowerCase == << "a", "b", "c", "d", "e", "f", "g", "h", "i", "j", "k", "l", "m",
                "n", "o", "p", "q", "r", "s", "t", "u", "v", "w", "x", "y", "z" >>
UpperCase == << "A", "B", "C", "D", "E", "F", "G", "H", "I", "J", "K", "L", "M",
                "N", "O", "P", "Q", "R", "S", "T", "U", "V", "W", "X", "Y", "Z" >>
Digits == << "0", "1", "2", "3", "4", "5", "6", "7", "8", "9" >>

IndexIn(c, table) == IF \E i \in 1..Len(table) : table[i] = c
                     THEN CHOOSE i \in 1..Len(table) : table[i] = c
                     ELSE 0

UpperOf == [c \in { LowerCase[i] : i \in 1..26 } |-> UpperCase[IndexIn(c, LowerCase)]]
LowerOf == [c \in { UpperCase[i] : i \in 1..26 } |-> LowerCase[IndexIn(c, UpperCase)]]
DigitOf == [c \in { Digits[i] : i \in 1..10 } |-> IndexIn(c, Digits) - 1]

to_ascii_uppercase(c) == IF c \in DOMAIN UpperOf THEN UpperOf[c] ELSE c
to_ascii_lowercase(c) == IF c \in DOMAIN LowerOf THEN LowerOf[c] ELSE c

make_ascii_uppercase(s) == [i \in 1..Len(s) |-> to_ascii_uppercase(s[i])]
make_ascii_lowercase(s) == [i \in 1..Len(s) |-> to_ascii_lowercase(s[i])]

is_whitespace(c) == c \in {" ", "\t", "\n", "\r"}

RECURSIVE trim_start(_)
trim_start(s) == IF s # << >> /\ is_whitespace(Head(s)) THEN trim_start(Tail(s)) ELSE s

RECURSIVE trim_end(_)
trim_end(s) == IF s # << >> /\ is_whitespace(s[Len(s)])
               THEN trim_end(SubSeq(s, 1, Len(s) - 1)) ELSE s

trim(s) == trim_end(trim_start(s))

\* the string made of the bytes of s
RECURSIVE Str(_)
Str(s) == IF s = << >> THEN "" ELSE Head(s) \o Str(Tail(s))

\* the line terminator, b"\r\n"
CRLF == << "\r", "\n" >>

from_utf8_ok(s) == \A i \in 1..Len(s) : s[i] # BadByte

\* str::split(sep): the pieces between the separators, as byte sequences
RECURSIVE split(_, _)
split(s, sep) ==
    IF \E i \in 1..Len(s) : s[i] = sep
    THEN LET i == CHOOSE k \in 1..Len(s) : s[k] = sep /\ \A j \in 1..(k - 1) : s[j] # sep
         IN  << SubSeq(s, 1, i - 1) >> \o split(SubSeq(s, i + 1, Len(s)), sep)
    ELSE << s >>

Front(s) == SubSeq(s, 1, Len(s) - 1)
Last(s) == s[Len(s)]

(* --------------------------- configuration ---------------------------- *)

\* mock::test_users: the credential store
users == [u \in {"a", "b"} |-> u]

\* the root_path handed to Server::new by the mock server: "."
root_path == << "." >>

\* the directory the server process runs in, as an absolute path
cwd == << "srv" >>

\* the filesystem when the server starts
InitDirs == { << >>, << "srv" >>, << "srv", "d" >>, << "etc" >> }
InitFiles == { << "srv", "f" >> }

(* ------------------------------- paths -------------------------------- *)

NoPath == << "?" >>

\* Path::to_string_lossy: the segments joined by "/"
RECURSIVE to_string_lossy(_)
to_string_lossy(p) ==
    IF Len(p) = 1 THEN p[1] ELSE p[1] \o "/" \o to_string_lossy(Tail(p))

\* the segments of a path given as bytes
Segments(arg) == LET parts == split(arg, "/") IN [i \in 1..Len(parts) |-> Str(parts[i])]

is_absolute(p) == Len(p) >= 2 /\ p[1] = ""

\* PathBuf::join: an absolute argument replaces the path; otherwise a "/" is
\* added unless the path already ends with one, and then the argument
join(p, arg) ==
    LET a == Segments(arg) IN
    IF is_absolute(a) THEN a
    ELSE IF Last(p) = "" THEN Front(p) \o a
    ELSE p \o a

\* the file the kernel reaches walking the segments segs from cur
RECURSIVE Walk(_, _, _, _)
Walk(cur, segs, D, F) ==
    IF cur = NoPath \/ segs = << >> THEN cur
    ELSE IF cur \notin D THEN NoPath
    ELSE LET s == Head(segs) IN
         IF s \in {"", "."} THEN Walk(cur, Tail(segs), D, F)
         ELSE IF s = ".." THEN Walk(IF cur = << >> THEN cur ELSE Front(cur), Tail(segs), D, F)
         ELSE IF Append(cur, s) \in D \cup F THEN Walk(Append(cur, s), Tail(segs), D, F)
         ELSE NoPath

Resolve(p, D, F) == Walk(IF is_absolute(p) THEN << >> ELSE cwd, p, D, F)

exists(p) == Resolve(p, dirs, files) # NoPath
is_dir(p) == Resolve(p, dirs, files) \in dirs

(* ------------------------------ replies ------------------------------- *)

Reply(code, text) == [code |-> code, text |-> text]

\* io::Write on the control connection: it cannot fail while the client
\* holds its end open; once the client has closed, a write may fail
Written(rs) == IF peer = "open" THEN {Len(rs)} ELSE 0..Len(rs)

\* response::Code, the codes the server writes
FileStatusOk == 150
Ok == 200
ServiceReadyForNewUser == 220
ServiceClosing == 221
ClosingDataConnection == 226
UserLoggedIn == 230
RequestedFileActionComplete == 250
PathNameCreated == 257
UserNameOkPasswordNeeded == 331
NeedAccountForLogin == 332
CannotOpenDataConnection == 425
ActionNotTaken == 450
CommandUnrecognized == 500
InvalidParametersOrArguments == 501
CommandNotImplemented == 502
BadSequenceOfCommands == 503
CommandNotImplementedForThatParameter == 504
NotLoggedIn == 530
FileUnavailable == 550

(* ------------------------- reading a command -------------------------- *)

\* self.reader.read(&mut command): the number of bytes stored, 0 at end of input
cmd_len == IF Len(reader) < 4 THEN Len(reader) ELSE 4

\* the buffer vec![0; 4] after the read
TokenBytes == [i \in 1..4 |-> IF i <= cmd_len THEN reader[i] ELSE NUL]

\* the token after make_ascii_uppercase, as bytes and as a string
CommandBytes == make_ascii_uppercase(TokenBytes)
command == Str(CommandBytes)

AfterToken == SubSeq(reader, cmd_len + 1, Len(reader))

HasNewline(s) == \E i \in 1..Len(s) : s[i] = "\n"

\* read_line: through the first "\n", or all there is at end of input
LineLen(s) == IF HasNewline(s)
              THEN CHOOSE i \in 1..Len(s) : s[i] = "\n" /\ \A j \in 1..(i - 1) : s[j] # "\n"
              ELSE Len(s)

ArgLine == SubSeq(AfterToken, 1, LineLen(AfterToken))
AfterLine == SubSeq(AfterToken, LineLen(AfterToken) + 1, Len(AfterToken))

\* read_arg: the rest of the line, trimmed
read_arg == trim(ArgLine)

\* the blocking read returns once a byte is there or the client has closed
ReadReturns == reader # << >> \/ peer = "closed"

\* the blocking read_line returns once a "\n" is there or the client has closed
ReadLineReturns == HasNewline(AfterToken) \/ peer = "closed"

\* `cmd_len < 4 || command.trim().len() < 3`
TooShort == cmd_len < 4 \/ Len(trim(CommandBytes)) < 3

\* read_cmd runs once more: the loop is running and the read returns
Runs == /\ pc = "running"
        /\ Len(log) < MaxCmds
        /\ ReadReturns

\* read_cmd reaches its match with the token in verbs
Arm(verbs) == /\ Runs
              /\ from_utf8_ok(TokenBytes)
              /\ command \in verbs
              /\ ~TooShort
              /\ ReadLineReturns
              /\ from_utf8_ok(ArgLine)

\* the end of one run of read_cmd in which the first n of the replies rs were
\* written: a failed write makes `?` return the error and command_loop ends,
\* otherwise the thread is at `next`
Finish(name, arg, rest, rs, n, next) ==
    /\ writer' = writer \o SubSeq(rs, 1, n)
    /\ pc' = IF n = Len(rs) THEN next ELSE "error"
    /\ reader' = rest
    /\ log' = Append(log, [command |-> name, arg |-> arg, cmd_len |-> cmd_len,
                           replies |-> SubSeq(rs, 1, n)])
    /\ UNCHANGED Elsewhere

Complete(name, arg, rest, rs, next) ==
    \E n \in Written(rs) : Finish(name, arg, rest, rs, n, next)

\* an arm that has read its argument line
Done(rs, next) == Complete(command, read_arg, AfterLine, rs, next)

(* ------------------------------ the arms ------------------------------ *)

Session == << path, username, data_type, data_structure, transfer_mode, data_connection >>
Filesystem == << dirs, files >>
Client == << peer, sent >>

\* New with the two greeting replies written in the other order
New_GreetingSwapped ==
    /\ pc = "accepted"
    /\ \E n \in Written(<< 1, 2 >>) :
        LET rs == << Reply(NeedAccountForLogin, "Enter username."),
                     Reply(ServiceReadyForNewUser, "Server ready for new user.") >>
        IN  /\ writer' = writer \o SubSeq(rs, 1, n)
            /\ pc' = IF n = 2 THEN "running" ELSE "error"
    /\ UNCHANGED << reader, log, Session, Filesystem, Client, data_out, Elsewhere >>

\* Connection::new: the two greeting replies
New ==
    /\ pc = "accepted"
    /\ \E n \in Written(<< 1, 2 >>) :
        LET rs == << Reply(ServiceReadyForNewUser, "Server ready for new user."),
                     Reply(NeedAccountForLogin, "Enter username.") >>
        IN  /\ writer' = writer \o SubSeq(rs, 1, n)
            /\ pc' = IF n = 2 THEN "running" ELSE "error"
    /\ UNCHANGED << reader, log, Session, Filesystem, Client, data_out, Elsewhere >>

\* read_cmd that returns Ok(false) after the 502 of a token that is not UTF-8
InvalidUtf8_EndsLoop ==
    /\ Runs
    /\ ~from_utf8_ok(TokenBytes)
    /\ Complete("", << >>, AfterToken,
                << Reply(CommandNotImplemented, "Command was not valid UTF-8.") >>, "done")
    /\ UNCHANGED << Session, Filesystem, Client, data_out >>

\* String::from_utf8 fails on the token
InvalidUtf8 ==
    /\ Runs
    /\ ~from_utf8_ok(TokenBytes)
    /\ Complete("", << >>, AfterToken,
                << Reply(CommandNotImplemented, "Command was not valid UTF-8.") >>, "running")
    /\ UNCHANGED << Session, Filesystem, Client, data_out >>

\* fewer than 4 bytes read, or fewer than 3 left after trimming: the rest of
\* the line is not read
ShortToken ==
    /\ Runs
    /\ from_utf8_ok(TokenBytes)
    /\ TooShort
    /\ Complete(command, << >>, AfterToken,
                << Reply(CommandUnrecognized, "Command not recognized.") >>, "running")
    /\ UNCHANGED << Session, Filesystem, Client, data_out >>

\* read_line fails on an argument line that is not UTF-8: `?` ends the loop
InvalidUtf8Arg ==
    /\ Runs
    /\ from_utf8_ok(TokenBytes)
    /\ ~TooShort
    /\ ReadLineReturns
    /\ ~from_utf8_ok(ArgLine)
    /\ Complete(command, << >>, AfterLine, << >>, "error")
    /\ UNCHANGED << Session, Filesystem, Client, data_out >>

\* UserExists without the lookup: every name is taken for a user
UserExists_Always(arg) == TRUE

\* `self.config.users.contains_key(&arg)`
UserExists(arg) == Str(arg) \in DOMAIN users

\* a User that forgets the pending user name when it rejects the new one
User_ClearsOnFailure ==
    /\ Arm({"USER"})
    /\ IF read_arg = << >>
       THEN /\ username' = None
            /\ Done(<< Reply(InvalidParametersOrArguments, "Username may not be empty.") >>, "running")
       ELSE IF ~UserExists(read_arg)
       THEN /\ username' = None
            /\ Done(<< Reply(NotLoggedIn, "User does not exist.") >>, "running")
       ELSE /\ username' = Some(Str(read_arg))
            /\ Done(<< Reply(UserNameOkPasswordNeeded, "Username Ok. Password needed.") >>, "running")
    /\ UNCHANGED << path, data_type, data_structure, transfer_mode, data_connection,
                    Filesystem, Client, data_out >>

User ==
    /\ Arm({"USER"})
    /\ IF read_arg = << >>
       THEN /\ username' = username
            /\ Done(<< Reply(InvalidParametersOrArguments, "Username may not be empty.") >>,
                    "running")
       ELSE IF ~UserExists(read_arg)
       THEN /\ username' = username
            /\ Done(<< Reply(NotLoggedIn, "User does not exist.") >>, "running")
       ELSE /\ username' = Some(Str(read_arg))
            /\ Done(<< Reply(UserNameOkPasswordNeeded, "Username Ok. Password needed.") >>,
                    "running")
    /\ UNCHANGED << path, data_type, data_structure, transfer_mode, data_connection,
                    Filesystem, Client, data_out >>

\* PasswordMatches without the comparison: any password of a user is right
PasswordMatches_AnyPassword(name, arg) == name \in DOMAIN users

\* PasswordMatches with the comparison negated
PasswordMatches_Negated(name, arg) == name \in DOMAIN users /\ users[name] # Str(arg)

\* `self.config.users.get(username) == Some(&arg)`
PasswordMatches(name, arg) == name \in DOMAIN users /\ users[name] = Str(arg)

\* the PASS arm: the reply it writes (the text of the 503 reply has the
\* word USER between backquotes in the source)
PassReply(arg) ==
    IF username # None
    THEN IF PasswordMatches(username[1], arg)
         THEN Reply(UserLoggedIn, "Logged in.")
         ELSE Reply(NotLoggedIn, "Incorrect password.")
    ELSE Reply(BadSequenceOfCommands, "Expected USER.")

\* Pass that forgets the pending user name when the password is wrong
Pass_ForgetsUserOnMismatch ==
    /\ Arm({"PASS"})
    /\ Done(<< PassReply(read_arg) >>, "running")
    /\ username' = IF PassReply(read_arg).code = NotLoggedIn THEN None ELSE username
    /\ UNCHANGED << path, data_type, data_structure, transfer_mode, data_connection,
                    Filesystem, Client, data_out >>

Pass ==
    /\ Arm({"PASS"})
    /\ Done(<< PassReply(read_arg) >>, "running")
    /\ UNCHANGED << Session, Filesystem, Client, data_out >>

\* Quit that returns Ok(true): the loop goes on
Quit_Continues ==
    /\ Arm({"QUIT"})
    /\ Done(<< Reply(ServiceClosing, "Goodbye!") >>, "running")
    /\ UNCHANGED << Session, Filesystem, Client, data_out >>

Quit ==
    /\ Arm({"QUIT"})
    /\ Done(<< Reply(ServiceClosing, "Goodbye!") >>, "done")
    /\ UNCHANGED << Session, Filesystem, Client, data_out >>

Noop ==
    /\ Arm({"NOOP"})
    /\ Done(<< Reply(Ok, "NOOP") >>, "running")
    /\ UNCHANGED << Session, Filesystem, Client, data_out >>

\* Connection::opts
Opts ==
    /\ Arm({"OPTS"})
    /\ IF Str(make_ascii_lowercase(read_arg)) = "utf8 on"
       THEN Done(<< Reply(Ok, "Ok, UTF-8 enabled.") >>, "running")
       ELSE Done(<< Reply(CommandNotImplemented, "Unknown option.") >>, "running")
    /\ UNCHANGED << Session, Filesystem, Client, data_out >>

(* ----------------------------- filesystem ----------------------------- *)

\* the segments that name something ("a//b" and "a/b/" name what "a/b" does)
Components(p) == SelectSeq(p, LAMBDA x : x # "")

Children(t) == { q \in dirs \cup files : Len(q) = Len(t) + 1 /\ SubSeq(q, 1, Len(t)) = t }

\* the directory in which the last component of p is looked up
ParentOf(p) ==
    Walk(IF is_absolute(p) THEN << >> ELSE cwd, Front(Components(p)), dirs, files)

\* fs::create_dir(p) succeeds: the parent is a directory and the name is free
create_dir_ok(p) ==
    /\ Components(p) # << >>
    /\ Last(Components(p)) \notin {".", ".."}
    /\ ParentOf(p) \in dirs
    /\ Append(ParentOf(p), Last(Components(p))) \notin dirs \cup files

Created(p) == Append(ParentOf(p), Last(Components(p)))

\* fs::remove_dir(p) succeeds: an empty directory, not named through "." or
\* "..", and not the root
remove_dir_ok(p) ==
    /\ Resolve(p, dirs, files) \in dirs
    /\ Resolve(p, dirs, files) # << >>
    /\ Components(p) # << >>
    /\ Last(Components(p)) \notin {".", ".."}
    /\ Children(Resolve(p, dirs, files)) = {}

\* the Debug form of a path: its string between double quotes
Quoted(p) == "\"" \o to_string_lossy(p) \o "\""

\* Cwd that stores the joined path before it checks it
Cwd_StoresBeforeCheck ==
    /\ Arm({"XCWD", "CWD "})
    /\ path' = join(path, read_arg)
    /\ IF ~is_dir(join(path, read_arg))
       THEN Done(<< Reply(InvalidParametersOrArguments, "Path is not a directory.") >>,
                 "running")
       ELSE Done(<< Reply(Ok, "Changed directory.") >>, "running")
    /\ UNCHANGED << username, data_type, data_structure, transfer_mode, data_connection,
                    Filesystem, Client, data_out >>

Cwd ==
    /\ Arm({"XCWD", "CWD "})
    /\ IF ~is_dir(join(path, read_arg))
       THEN /\ path' = path
            /\ Done(<< Reply(InvalidParametersOrArguments, "Path is not a directory.") >>,
                    "running")
       ELSE /\ path' = join(path, read_arg)
            /\ Done(<< Reply(Ok, "Changed directory.") >>, "running")
    /\ UNCHANGED << username, data_type, data_structure, transfer_mode, data_connection,
                    Filesystem, Client, data_out >>

\* PwdReply that joins the argument to the path, as the other path arms do
PwdReply_JoinsArgument == Reply(Ok, to_string_lossy(join(path, read_arg)))

\* the PWD arm: the reply it writes
PwdReply == Reply(Ok, to_string_lossy(path))

Pwd ==
    /\ Arm({"XPWD", "PWD\r", "PWD "})
    /\ Done(<< PwdReply >>, "running")
    /\ UNCHANGED << Session, Filesystem, Client, data_out >>

\* Mkd that creates the directory without testing whether the path exists
Mkd_AlwaysCreates ==
    /\ Arm({"XMKD", "MKD ", "MKD\r"})
    /\ LET p == join(path, read_arg) IN
       IF create_dir_ok(p)
       THEN /\ dirs' = dirs \cup { Created(p) }
            /\ Done(<< Reply(PathNameCreated, "Successfully created " \o Quoted(p) \o ".") >>,
                    "running")
       ELSE /\ dirs' = dirs
            /\ Done(<< >>, "error")
    /\ UNCHANGED << Session, files, Client, data_out >>

\* the MKD arm: fs::create_dir is called only when the path does not exist,
\* and its error ends the loop through `?`
Mkd ==
    /\ Arm({"XMKD", "MKD ", "MKD\r"})
    /\ LET p == join(path, read_arg) IN
       IF exists(p)
       THEN /\ dirs' = dirs
            /\ Done(<< Reply(PathNameCreated, "Successfully created " \o Quoted(p) \o ".") >>,
                    "running")
       ELSE IF create_dir_ok(p)
       THEN /\ dirs' = dirs \cup { Created(p) }
            /\ Done(<< Reply(PathNameCreated, "Successfully created " \o Quoted(p) \o ".") >>,
                    "running")
       ELSE /\ dirs' = dirs
            /\ Done(<< >>, "error")
    /\ UNCHANGED << Session, files, Client, data_out >>

\* rmd that removes without testing whether the path exists
Rmd_NoExistsCheck ==
    /\ Arm({"XRMD", "RMD ", "RMD\r"})
    /\ LET p == join(path, read_arg) IN
       IF remove_dir_ok(p)
       THEN /\ dirs' = dirs \ { Resolve(p, dirs, files) }
            /\ Done(<< Reply(RequestedFileActionComplete,
                             "Successfully deleted " \o Quoted(p) \o ".") >>, "running")
       ELSE /\ dirs' = dirs
            /\ Done(<< Reply(ActionNotTaken, "Error deleting " \o Quoted(p) \o ": os error.") >>,
                    "running")
    /\ UNCHANGED << Session, files, Client, data_out >>

\* The MKD arm as two steps, for sessions that run side by side: the test
\* `path.exists()`, after which 257 is written at once when the path is
\* there, and fs::create_dir, which fails when the path has appeared since
MkdTest ==
    /\ Arm({"XMKD", "MKD ", "MKD\r"})
    /\ LET p == join(path, read_arg) IN
       IF exists(p)
       THEN /\ Done(<< Reply(PathNameCreated, "Successfully created " \o Quoted(p) \o ".") >>,
                    "running")
       ELSE /\ pc' = "creating"
            /\ UNCHANGED << reader, writer, log, Elsewhere >>
    /\ UNCHANGED << Session, Filesystem, Client, data_out >>

MkdCreate ==
    /\ pc = "creating"
    /\ LET p == join(path, read_arg) IN
       IF create_dir_ok(p)
       THEN /\ dirs' = dirs \cup { Created(p) }
            /\ Done(<< Reply(PathNameCreated, "Successfully created " \o Quoted(p) \o ".") >>,
                    "running")
       ELSE /\ dirs' = dirs
            /\ Done(<< >>, "error")
    /\ UNCHANGED << Session, files, Client, data_out >>

\* Connection::rmd
Rmd ==
    /\ Arm({"XRMD", "RMD ", "RMD\r"})
    /\ LET p == join(path, read_arg) IN
       IF ~exists(p)
       THEN /\ dirs' = dirs
            /\ Done(<< Reply(FileUnavailable, "Error removing " \o Quoted(p)
                                \o ": No such file or directory.") >>, "running")
       ELSE IF remove_dir_ok(p)
       THEN /\ dirs' = dirs \ { Resolve(p, dirs, files) }
            /\ Done(<< Reply(RequestedFileActionComplete,
                             "Successfully deleted " \o Quoted(p) \o ".") >>, "running")
       ELSE /\ dirs' = dirs
            /\ Done(<< Reply(ActionNotTaken, "Error deleting " \o Quoted(p) \o ": os error.") >>,
                    "running")
    /\ UNCHANGED << Session, files, Client, data_out >>

(* ------------------------- transfer parameters ------------------------ *)

\* the parameters of a new connection (DataType::default() and the others)
DefaultDataType == "Ascii"
DefaultDataStructure == "Files"
DefaultTransferMode == "Stream"

\* `match arg.chars().next()` of the three parameter commands: the first
\* letter of the argument selects in the table of the letters the match names
Selected(arg, table) ==
    IF arg = << >> THEN "missing"
    ELSE IF arg[1] \in DOMAIN table THEN table[arg[1]]
    ELSE "unknown"

\* the letters of type_cmd without their lower-case forms
TypeTable_UpperOnly == [c \in {"A", "E", "I", "L"} |->
                           IF c = "A" THEN "Ascii"
                           ELSE IF c = "E" THEN "Ebcdic"
                           ELSE IF c = "I" THEN "Image"
                           ELSE "LocalType"]

TypeTable == [c \in {"A", "a", "E", "e", "I", "i", "L"} |->
                 IF c \in {"A", "a"} THEN "Ascii"
                 ELSE IF c \in {"E", "e"} THEN "Ebcdic"
                 ELSE IF c \in {"I", "i"} THEN "Image"
                 ELSE "LocalType"]
StruTable == [c \in {"F", "f", "R", "r", "P", "p"} |->
                 IF c \in {"F", "f"} THEN "Files"
                 ELSE IF c \in {"R", "r"} THEN "Record"
                 ELSE "Page"]
ModeTable == [c \in {"S", "s", "B", "b", "C", "c"} |->
                 IF c \in {"S", "s"} THEN "Stream"
                 ELSE IF c \in {"B", "b"} THEN "Block"
                 ELSE "Compressed"]

\* type_cmd that stores the selected type before it checks the byte size
Type_StoresBeforeCheck ==
    /\ Arm({"TYPE"})
    /\ LET t == Selected(read_arg, TypeTable) IN
       IF t = "missing"
       THEN /\ data_type' = data_type
            /\ Done(<< Reply(InvalidParametersOrArguments, "Missing argument.") >>, "running")
       ELSE IF t = "unknown"
       THEN /\ data_type' = data_type
            /\ Done(<< Reply(CommandNotImplementedForThatParameter,
                             "Unknown TYPE: " \o read_arg[1] \o ".") >>, "running")
       ELSE IF t = "LocalType" /\ trim(Tail(read_arg)) # << "8" >>
       THEN /\ data_type' = t
            /\ Done(<< Reply(CommandNotImplementedForThatParameter,
                             "Only 8-bit bytes are supported.") >>, "running")
       ELSE /\ data_type' = t
            /\ Done(<< Reply(Ok, "Type is now " \o t \o ".") >>, "running")
    /\ UNCHANGED << path, username, data_structure, transfer_mode, data_connection,
                    Filesystem, Client, data_out >>

\* Connection::type_cmd
Type ==
    /\ Arm({"TYPE"})
    /\ LET t == Selected(read_arg, TypeTable) IN
       IF t = "missing"
       THEN /\ data_type' = data_type
            /\ Done(<< Reply(InvalidParametersOrArguments, "Missing argument.") >>, "running")
       ELSE IF t = "unknown"
       THEN /\ data_type' = data_type
            /\ Done(<< Reply(CommandNotImplementedForThatParameter,
                             "Unknown TYPE: " \o read_arg[1] \o ".") >>, "running")
       ELSE IF t = "LocalType" /\ trim(Tail(read_arg)) # << "8" >>
       THEN /\ data_type' = data_type
            /\ Done(<< Reply(CommandNotImplementedForThatParameter,
                             "Only 8-bit bytes are supported.") >>, "running")
       ELSE /\ data_type' = t
            /\ Done(<< Reply(Ok, "Type is now " \o t \o ".") >>, "running")
    /\ UNCHANGED << path, username, data_structure, transfer_mode, data_connection,
                    Filesystem, Client, data_out >>

\* Connection::stru
Stru ==
    /\ Arm({"STRU"})
    /\ LET t == Selected(read_arg, StruTable) IN
       IF t = "missing"
       THEN /\ data_structure' = data_structure
            /\ Done(<< Reply(InvalidParametersOrArguments, "Missing argument.") >>, "running")
       ELSE IF t = "unknown"
       THEN /\ data_structure' = data_structure
            /\ Done(<< Reply(CommandNotImplementedForThatParameter,
                             "Unknown STRUcture: " \o read_arg[1] \o ".") >>, "running")
       ELSE /\ data_structure' = t
            /\ Done(<< Reply(Ok, "Structure is now " \o t \o ".") >>, "running")
    /\ UNCHANGED << path, username, data_type, transfer_mode, data_connection,
                    Filesystem, Client, data_out >>

\* Connection::mode
Mode ==
    /\ Arm({"MODE"})
    /\ LET t == Selected(read_arg, ModeTable) IN
       IF t = "missing"
       THEN /\ transfer_mode' = transfer_mode
            /\ Done(<< Reply(InvalidParametersOrArguments, "Missing argument.") >>, "running")
       ELSE IF t = "unknown"
       THEN /\ transfer_mode' = transfer_mode
            /\ Done(<< Reply(CommandNotImplementedForThatParameter,
                             "Unknown transfer mode: " \o read_arg[1] \o ".") >>, "running")
       ELSE /\ transfer_mode' = t
            /\ Done(<< Reply(Ok, "Transfer mode is now " \o t \o ".") >>, "running")
    /\ UNCHANGED << path, username, data_type, data_structure, data_connection,
                    Filesystem, Client, data_out >>

(* --------------------------- data connection -------------------------- *)

IsDigits(b) == b # << >> /\ \A i \in 1..Len(b) : b[i] \in DOMAIN DigitOf

RECURSIVE DecimalValue(_)
DecimalValue(b) ==
    IF b = << >> THEN 0 ELSE DecimalValue(Front(b)) * 10 + DigitOf[Last(b)]

\* str::parse::<u16>: the value, or -1 where parse returns Err
parse_u16(b) == IF IsDigits(b) /\ DecimalValue(b) <= 65535 THEN DecimalValue(b) ELSE -1

\* vals.join(".")
RECURSIVE JoinDot(_)
JoinDot(v) == IF v = << >> THEN << >>
              ELSE IF Len(v) = 1 THEN v[1]
              ELSE v[1] \o << "." >> \o JoinDot(Tail(v))

\* Ipv4Addr::from_str succeeds: four decimal fields of at most three digits,
\* each at most 255 and without a leading zero
ipv4_ok(b) ==
    LET f == split(b, ".") IN
    /\ Len(f) = 4
    /\ \A i \in 1..4 : /\ IsDigits(f[i])
                       /\ Len(f[i]) <= 3
                       /\ DecimalValue(f[i]) <= 255
                       /\ (Len(f[i]) > 1 => f[i][1] # "0")

\* the PORT arm once the port is computed: the address is parsed, the data
\* connection opened (the peer may refuse: `?` then ends the loop)
PortConnect(port, host) ==
    IF ~ipv4_ok(JoinDot(host))
    THEN /\ data_connection' = data_connection
         /\ Done(<< Reply(InvalidParametersOrArguments, "IP not in valid format.") >>, "running")
    ELSE \E connected \in BOOLEAN :
            IF connected
            THEN /\ data_connection' = Some([ip |-> Str(JoinDot(host)), port |-> port])
                 /\ Done(<< Reply(Ok, "Changed port.") >>, "running")
            ELSE /\ data_connection' = data_connection
                 /\ Done(<< >>, "error")

\* a panic of the connection's thread: nothing is written
Panic == Done(<< >>, "panicked")

\* the PORT arm with the two port fields in each other's place
Port_SwapsPortFields ==
    /\ Arm({"PORT"})
    /\ LET vals == split(read_arg, ",")
           p2 == parse_u16(Last(vals))
           p1 == IF Len(vals) < 2 THEN -1 ELSE parse_u16(vals[Len(vals) - 1])
           host == SubSeq(vals, 1, Len(vals) - 2)
           shifted == (p2 * 256) % 65536
       IN  IF p2 < 0 \/ p1 < 0
           THEN /\ data_connection' = data_connection
                /\ Panic
           ELSE IF p1 + shifted > 65535
           THEN \/ /\ data_connection' = data_connection
                   /\ Panic
                \/ PortConnect((p1 + shifted) % 65536, host)
           ELSE PortConnect(p1 + shifted, host)
    /\ UNCHANGED << path, username, data_type, data_structure, transfer_mode,
                    Filesystem, Client, data_out >>

Port ==
    /\ Arm({"PORT"})
    /\ LET vals == split(read_arg, ",")
           p2 == parse_u16(Last(vals))
           p1 == IF Len(vals) < 2 THEN -1 ELSE parse_u16(vals[Len(vals) - 1])
           host == SubSeq(vals, 1, Len(vals) - 2)
           shifted == (p1 * 256) % 65536
       IN  IF p2 < 0 \/ p1 < 0
           THEN /\ data_connection' = data_connection
                /\ Panic
           ELSE IF p2 + shifted > 65535
           \* u16 overflow of the sum: a panic where overflow checks are
           \* compiled in, the wrapped value where they are not
           THEN \/ /\ data_connection' = data_connection
                   /\ Panic
                \/ PortConnect((p2 + shifted) % 65536, host)
           ELSE PortConnect(p2 + shifted, host)
    /\ UNCHANGED << path, username, data_type, data_structure, transfer_mode,
                    Filesystem, Client, data_out >>

\* the entry names fs::read_dir yields for the directory p
Listing(p) == { Last(q) : q \in Children(Resolve(p, dirs, files)) }

\* the orders in which fs::read_dir may yield the names
RECURSIVE Orders(_)
Orders(S) == IF S = {} THEN { << >> }
             ELSE UNION { { << x >> \o t : t \in Orders(S \ { x }) } : x \in S }

\* Vec<String>::join("\r\n"), a name being one element of the result
RECURSIVE join_crlf(_)
join_crlf(names) == IF names = << >> THEN << >>
                    ELSE IF Len(names) = 1 THEN names
                    ELSE << names[1] >> \o CRLF \o join_crlf(Tail(names))

\* bytes.ends_with(b"\r\n")
ends_with_crlf(b) == Len(b) >= 2 /\ SubSeq(b, Len(b) - 1, Len(b)) = CRLF

\* what send writes on the data connection: the bytes, and the terminator
\* when they do not end with it
Sent(bytes) == IF ends_with_crlf(bytes) THEN bytes ELSE bytes \o CRLF

\* write_to_data_connection that leaves the connection in the session
write_to_data_connection_KeepsConnection(payload) ==
    IF data_connection # None
    THEN \E n \in Written(<< 1, 2 >>), written \in BOOLEAN :
            LET rs == << Reply(FileStatusOk, "Connecting to data port."),
                         Reply(ClosingDataConnection, "Closing connection") >>
            IN  IF n = 0
                THEN /\ UNCHANGED << data_connection, data_out >>
                     /\ Finish(command, read_arg, AfterLine, rs, 0, "running")
                ELSE /\ data_connection' = data_connection
                     /\ IF written
                        THEN /\ data_out' = Append(data_out, [connection |-> data_connection[1],
                                                               payload |-> Sent(payload),
                                                               shutdown |-> TRUE])
                             /\ Finish(command, read_arg, AfterLine, rs, n, "running")
                        ELSE /\ data_out' = data_out
                             /\ Finish(command, read_arg, AfterLine, rs, 1, "running")
    ELSE /\ UNCHANGED << data_connection, data_out >>
         /\ Done(<< Reply(FileStatusOk, "Connecting to data port."),
                    Reply(CannotOpenDataConnection, "No data connection") >>, "running")

\* write_to_data_connection that writes both replies before the payload
write_to_data_connection_RepliesFirst(payload) ==
    IF data_connection # None
    THEN \E n \in Written(<< 1, 2 >>), written \in BOOLEAN :
            LET rs == << Reply(FileStatusOk, "Connecting to data port."),
                         Reply(ClosingDataConnection, "Closing connection") >>
            IN  IF n < 2
                THEN /\ UNCHANGED << data_connection, data_out >>
                     /\ Finish(command, read_arg, AfterLine, rs, n, "running")
                ELSE /\ data_connection' = None
                     /\ IF written
                        THEN /\ data_out' = Append(data_out, [connection |-> data_connection[1],
                                                               payload |-> Sent(payload),
                                                               shutdown |-> TRUE])
                             /\ Finish(command, read_arg, AfterLine, rs, 2, "running")
                        ELSE /\ data_out' = data_out
                             /\ Finish(command, read_arg, AfterLine, rs, 2, "error")
    ELSE /\ UNCHANGED << data_connection, data_out >>
         /\ Done(<< Reply(FileStatusOk, "Connecting to data port."),
                    Reply(CannotOpenDataConnection, "No data connection") >>, "running")

\* Connection::write_to_data_connection, inside the NLST arm: 150 is written
\* first; an open data connection is taken, written to (its peer may be
\* gone: `?` then ends the loop) and shut down, and 226 follows; with none
\* open, 425 follows
write_to_data_connection(payload) ==
    IF data_connection # None
    THEN \E n \in Written(<< 1, 2 >>), written \in BOOLEAN :
            LET rs == << Reply(FileStatusOk, "Connecting to data port."),
                         Reply(ClosingDataConnection, "Closing connection") >>
            IN  IF n = 0
                THEN /\ UNCHANGED << data_connection, data_out >>
                     /\ Finish(command, read_arg, AfterLine, rs, 0, "running")
                ELSE /\ data_connection' = None
                     /\ IF written
                        THEN /\ data_out' = Append(data_out, [connection |-> data_connection[1],
                                                               payload |-> Sent(payload),
                                                               shutdown |-> TRUE])
                             /\ Finish(command, read_arg, AfterLine, rs, n, "running")
                        ELSE /\ data_out' = data_out
                             /\ Finish(command, read_arg, AfterLine, rs, 1, "running")
    ELSE /\ UNCHANGED << data_connection, data_out >>
         /\ Done(<< Reply(FileStatusOk, "Connecting to data port."),
                    Reply(CannotOpenDataConnection, "No data connection") >>, "running")

Nlst ==
    /\ Arm({"NLST"})
    /\ IF ~is_dir(join(path, read_arg))
       THEN /\ UNCHANGED << data_connection, data_out >>
            /\ Done(<< >>, "error")
       ELSE \E names \in Orders(Listing(join(path, read_arg))) :
               write_to_data_connection(join_crlf(names))
    /\ UNCHANGED << path, username, data_type, data_structure, transfer_mode,
                    Filesystem, Client >>

(* -------------------------- the other tokens -------------------------- *)

\* the arms that are `todo!()`
TodoVerbs == { "ACCT", "CDUP", "SMNT", "REIN", "PASV", "RETR", "STOR", "STOU", "APPE",
               "ALLO", "REST", "RNFR", "RNTO", "ABOR", "DELE", "LIST", "SITE", "SYST",
               "STAT", "HELP" }

\* the tokens an arm of the match names
KnownVerbs == TodoVerbs \cup
              { "USER", "PASS", "XCWD", "CWD ", "QUIT", "PORT", "TYPE", "STRU", "MODE",
                "XRMD", "RMD ", "RMD\r", "XMKD", "MKD ", "MKD\r", "XPWD", "PWD\r", "PWD ",
                "NLST", "NOOP", "OPTS" }

Todo ==
    /\ Arm(TodoVerbs)
    /\ Panic
    /\ UNCHANGED << Session, Filesystem, Client, data_out >>

\* a default arm that answers as the invalid-token branch does
Unrecognized_NotImplemented ==
    /\ Runs
    /\ from_utf8_ok(TokenBytes)
    /\ command \notin KnownVerbs
    /\ ~TooShort
    /\ ReadLineReturns
    /\ from_utf8_ok(ArgLine)
    /\ Done(<< Reply(CommandNotImplemented, "Command not recognized.") >>, "running")
    /\ UNCHANGED << Session, Filesystem, Client, data_out >>

\* the default arm, Connection::unrecognized_command
Unrecognized ==
    /\ Runs
    /\ from_utf8_ok(TokenBytes)
    /\ command \notin KnownVerbs
    /\ ~TooShort
    /\ ReadLineReturns
    /\ from_utf8_ok(ArgLine)
    /\ Done(<< Reply(CommandUnrecognized, "Command not recognized.") >>, "running")
    /\ UNCHANGED << Session, Filesystem, Client, data_out >>

(* ------------------------------ the client ---------------------------- *)

\* the lines a client writes
Lines == {
    << "U", "S", "E", "R", " ", "a" >> \o CRLF,
    << "u", "s", "e", "r", " ", "b" >> \o CRLF,
    << "U", "S", "E", "R", " ", "x" >> \o CRLF,
    << "U", "S", "E", "R" >> \o CRLF,
    << "P", "A", "S", "S", " ", "a" >> \o CRLF,
    << "P", "A", "S", "S", " ", "b" >> \o CRLF,
    << "P", "A", "S", "S", " ", "w" >> \o CRLF,
    << "C", "W", "D", " ", "d" >> \o CRLF,
    << "C", "W", "D", " ", ".", "." >> \o CRLF,
    << "C", "W", "D", " ", "f" >> \o CRLF,
    << "P", "W", "D" >> \o CRLF,
    << "P", "W", "D", " ", "a", "b", "c", "1", "2", "3" >> \o CRLF,
    << "M", "K", "D", " ", "n" >> \o CRLF,
    << "R", "M", "D", " ", "d" >> \o CRLF,
    << "N", "L", "S", "T" >> \o CRLF,
    << "P", "O", "R", "T", " ", "1", ",", "2", ",", "3", ",", "4", ",", "1", ",", "2" >> \o CRLF,
    << "T", "Y", "P", "E", " ", "I" >> \o CRLF,
    << "S", "T", "R", "U", " ", "R" >> \o CRLF,
    << "M", "O", "D", "E", " ", "B" >> \o CRLF,
    << "O", "P", "T", "S", " ", "U", "T", "F", "8", " ", "O", "N" >> \o CRLF,
    << "N", "O", "O", "P" >> \o CRLF,
    << "Q", "U", "I", "T" >> \o CRLF,
    << "A", "C", "C", "T" >> \o CRLF,
    << "X", "Y", "Z", "Z" >> \o CRLF,
    << BadByte, "W", "D", " ", "d" >> \o CRLF,
    << "P", "W", "D", " ", BadByte >> \o CRLF,
    CRLF
}

\* the client writes one more line, of at most max
Send(line, max) ==
    /\ peer = "open"
    /\ pc \in {"accepted", "running"}
    /\ sent < max
    /\ reader' = reader \o line
    /\ sent' = sent + 1
    /\ UNCHANGED << writer, pc, log, Session, Filesystem, peer, data_out, Elsewhere >>

\* the client closes the control connection
Close ==
    /\ peer = "open"
    /\ pc \in {"accepted", "running"}
    /\ peer' = "closed"
    /\ UNCHANGED << reader, writer, pc, log, Session, Filesystem, sent, data_out, Elsewhere >>

(* --------------------------- the reply codec -------------------------- *)

\* the session, its client and the filesystem, untouched by the steps of
\* the codec and of the mock servers
OneSession == << reader, writer, pc, log, Session, Filesystem, Client, data_out >>

\* the Display of a Code: `*self as u16` in decimal
RECURSIVE to_decimal(_)
to_decimal(n) == IF n < 10 THEN << Digits[n + 1] >>
                 ELSE to_decimal(n \div 10) \o << Digits[(n % 10) + 1] >>

\* message.contains('\n')
contains_newline(message) == \E i \in 1..Len(message) : message[i] = "\n"

\* line.starts_with(|c: char| c.is_ascii_digit())
starts_with_digit(line) == line # << >> /\ line[1] \in DOMAIN DigitOf

\* write_response that writes a space after the code of a text of several lines
write_response_SpaceFirst(code, message) ==
    LET RECURSIVE lines_out(_)
        lines_out(lines) ==
            IF Len(lines) = 1
            THEN to_decimal(code) \o << " " >> \o lines[1] \o CRLF
            ELSE (IF starts_with_digit(lines[1]) THEN << " ", " " >> ELSE << >>)
                 \o lines[1] \o CRLF \o lines_out(Tail(lines))
    IN  IF contains_newline(message)
        THEN to_decimal(code) \o << " " >> \o lines_out(split(message, "\n"))
        ELSE to_decimal(code) \o << " " >> \o message \o CRLF

\* write_response that leaves the lines that start with a digit as they are
write_response_NoDigitPrefix(code, message) ==
    LET RECURSIVE lines_out(_)
        lines_out(lines) ==
            IF Len(lines) = 1
            THEN to_decimal(code) \o << " " >> \o lines[1] \o CRLF
            ELSE lines[1] \o CRLF \o lines_out(Tail(lines))
    IN  IF contains_newline(message)
        THEN to_decimal(code) \o << "-" >> \o lines_out(split(message, "\n"))
        ELSE to_decimal(code) \o << " " >> \o message \o CRLF

\* Connection::write_response: the bytes written for a code and a text
write_response(code, message) ==
    LET RECURSIVE lines_out(_)
        lines_out(lines) ==
            IF Len(lines) = 1
            THEN to_decimal(code) \o << " " >> \o lines[1] \o CRLF
            ELSE (IF starts_with_digit(lines[1]) THEN << " ", " " >> ELSE << >>)
                 \o lines[1] \o CRLF \o lines_out(Tail(lines))
    IN  IF contains_newline(message)
        THEN to_decimal(code) \o << "-" >> \o lines_out(split(message, "\n"))
        ELSE to_decimal(code) \o << " " >> \o message \o CRLF

\* s.starts_with(prefix)
starts_with(b, prefix) == Len(b) >= Len(prefix) /\ SubSeq(b, 1, Len(prefix)) = prefix

\* the loop of the client's read_cmd after a "-": lines are read until one
\* starts with the prefix; at the end of input read_line returns nothing,
\* the test fails and the loop reads again, for ever
RECURSIVE read_until_prefix(_, _, _)
read_until_prefix(rest, prefix, consumed) ==
    IF rest = << >> THEN [outcome |-> "hangs", consumed |-> consumed, last |-> << >>]
    ELSE LET line == SubSeq(rest, 1, LineLen(rest)) IN
         IF starts_with(line, prefix)
         THEN [outcome |-> "read", consumed |-> consumed + Len(line), last |-> line]
         ELSE read_until_prefix(SubSeq(rest, Len(line) + 1, Len(rest)), prefix,
                                consumed + Len(line))

\* FtpConnection::read_cmd of the client on the bytes b: the code, the
\* separator, the rest of the line and, after a "-", the lines through the
\* first that starts with the code and a space
client_read_cmd(b) ==
    IF Len(b) < 4 THEN [outcome |-> "eof", consumed |-> Len(b), last |-> << >>]
    ELSE LET code == SubSeq(b, 1, 3)
             space_or_dash == b[4]
             rest == SubSeq(b, 5, Len(b))
             first == SubSeq(rest, 1, LineLen(rest))
         IN  IF space_or_dash = "-"
             THEN read_until_prefix(SubSeq(rest, Len(first) + 1, Len(rest)),
                                    code \o << " " >>, 4 + Len(first))
             ELSE [outcome |-> "read", consumed |-> 4 + Len(first),
                   last |-> SubSeq(b, 1, 4) \o first]

\* the lines a text is made of
TextLines == {
    << >>,
    << "a" >>,
    << "2", "x" >>,
    << "2", "0", "0", " ", "b" >>,
    << "1", "5", "0", " ", "z" >>,
    << " ", "2", "0", "0", " ", "c" >>
}

\* the texts of 1 to n lines
RECURSIVE Texts(_)
Texts(n) == IF n = 1 THEN { << l >> : l \in TextLines }
            ELSE Texts(n - 1) \cup { Append(t, l) : t \in { u \in Texts(n - 1) : Len(u) = n - 1 },
                                                     l \in TextLines }

\* the text as the caller writes it: its lines with "\n" between them
RECURSIVE join_lf(_)
join_lf(lines) == IF Len(lines) = 1 THEN lines[1]
                  ELSE lines[1] \o << "\n" >> \o join_lf(Tail(lines))

\* a caller is about to write a reply
InitCodec ==
    /\ response \in { Some([code |-> c, lines |-> t]) :
                          c \in { Ok, FileStatusOk }, t \in Texts(MaxTextLines) }
    /\ wire = << >>
    /\ received = None

WriteResponse ==
    /\ wire = << >>
    /\ wire' = write_response(response[1].code, join_lf(response[1].lines))
    /\ UNCHANGED << response, received, OneSession, parked, Mocks, Interactive >>

ClientReadCmd ==
    /\ wire # << >>
    /\ received = None
    /\ received' = Some(client_read_cmd(wire))
    /\ UNCHANGED << response, wire, OneSession, parked, Mocks, Interactive >>

(* --------------------------- the mock servers ------------------------- *)

\* static MOCK_COUNT: AtomicU16 = AtomicU16::new(60_000)
FirstPort == 60000

\* the test threads that call MockFtpServer::new
Tests == 1..MaxTests

\* a test thread that has not called MockFtpServer::new yet
NotCalled == [stage |-> "idle", port |-> 0, server |-> "none"]

\* a load of the counter without the addition
FetchAdd_LoadOnly(t) ==
    /\ mocks[t].stage = "idle"
    /\ mocks' = [mocks EXCEPT ![t] = [stage |-> "spawned", port |-> MOCK_COUNT,
                                      server |-> "starting"]]
    /\ MOCK_COUNT' = MOCK_COUNT
    /\ UNCHANGED << OneSession, parked, Codec, Interactive >>

\* MOCK_COUNT.fetch_add(1, Ordering::Relaxed), one atomic step on the u16
\* counter, and the spawn of the server's thread with the port it returned
FetchAdd(t) ==
    /\ mocks[t].stage = "idle"
    /\ mocks' = [mocks EXCEPT ![t] = [stage |-> "spawned", port |-> MOCK_COUNT,
                                      server |-> "starting"]]
    /\ MOCK_COUNT' = (MOCK_COUNT + 1) % 65536
    /\ UNCHANGED << OneSession, parked, Codec, Interactive >>

\* the ports on which a mock server listens
Bound == { mocks[t].port : t \in { u \in Tests : mocks[u].server = "listening" } }

\* Server::new in the spawned thread: TcpListener::bind(addr).unwrap()
Bind(t) ==
    /\ mocks[t].server = "starting"
    /\ mocks' = [mocks EXCEPT ![t].server =
                    IF mocks[t].port \in Bound THEN "panicked" ELSE "listening"]
    /\ UNCHANGED << MOCK_COUNT, OneSession, parked, Codec, Interactive >>

\* TcpStream::connect((LOCALHOST, port)).unwrap() in the test thread
Connect(t) ==
    /\ mocks[t].stage = "spawned"
    /\ mocks' = [mocks EXCEPT ![t].stage =
                    IF mocks[t].port \in Bound THEN "connected" ELSE "panicked"]
    /\ UNCHANGED << MOCK_COUNT, OneSession, parked, Codec, Interactive >>

(* ---------------------------- two sessions --------------------------- *)

\* Server::run spawns one thread per accepted connection, and each thread
\* owns its Connection.  The variables of the session hold the thread that
\* is running; `parked` holds the other one, and the scheduler may switch.
Running ==
    [id |-> 3 - parked.id, reader |-> reader, writer |-> writer, path |-> path,
     username |-> username, data_type |-> data_type, data_structure |-> data_structure,
     transfer_mode |-> transfer_mode, data_connection |-> data_connection,
     pc |-> pc, peer |-> peer, log |-> log, sent |-> sent]

\* the session a newly accepted connection starts as
Accepted(id) ==
    [id |-> id, reader |-> << >>, writer |-> << >>, path |-> root_path,
     username |-> None, data_type |-> DefaultDataType,
     data_structure |-> DefaultDataStructure, transfer_mode |-> DefaultTransferMode,
     data_connection |-> None, pc |-> "accepted", peer |-> "open", log |-> << >>,
     sent |-> 0]

\* a switch in which the pending user name stays where it is, as if it
\* were one field shared by the threads
Switch_SharedUsername ==
    /\ parked' = [Running EXCEPT !.username = parked.username]
    /\ reader' = parked.reader
    /\ writer' = parked.writer
    /\ path' = parked.path
    /\ username' = username
    /\ data_type' = parked.data_type
    /\ data_structure' = parked.data_structure
    /\ transfer_mode' = parked.transfer_mode
    /\ data_connection' = parked.data_connection
    /\ pc' = parked.pc
    /\ peer' = parked.peer
    /\ log' = parked.log
    /\ sent' = parked.sent
    /\ UNCHANGED << Filesystem, data_out, Codec, Mocks, Interactive >>

\* the scheduler runs the other thread: every field of a Connection stays
\* with its thread
Switch ==
    /\ parked' = Running
    /\ reader' = parked.reader
    /\ writer' = parked.writer
    /\ path' = parked.path
    /\ username' = parked.username
    /\ data_type' = parked.data_type
    /\ data_structure' = parked.data_structure
    /\ transfer_mode' = parked.transfer_mode
    /\ data_connection' = parked.data_connection
    /\ pc' = parked.pc
    /\ peer' = parked.peer
    /\ log' = parked.log
    /\ sent' = parked.sent
    /\ UNCHANGED << Filesystem, data_out, Codec, Mocks, Interactive >>

(* ------------------------ the interactive client ---------------------- *)

\* what the user types at the prompts of prompt_login, trimmed
TypedNames == { << "a" >>, << "x" >> }
TypedPasswords == { << "a" >>, << "w" >> }
\* what the user types at the prompt of main's loop
TypedLines == {
    << "N", "L", "S", "T" >> \o CRLF,
    << "N", "O", "O", "P" >> \o CRLF,
    << "Q", "U", "I", "T" >> \o CRLF
}

\* a reply is waiting on the control connection
Unread == client_read < Len(writer)

\* the server's end of the control connection is gone
ServerEnded == pc \in {"done", "error", "panicked"}

\* FtpConnection::read_cmd blocks until a reply arrives or the stream ends
ReplyOrEnd == Unread \/ ServerEnded

\* FtpConnection::read_cmd: takes the next reply of the control connection
\* and goes on at `hit` when its code is one of `codes`, at `miss` when
\* not; at the end of the stream read_exact fails and `?` ends main
ReadCmd(codes, hit, miss) ==
    /\ ReplyOrEnd
    /\ IF Unread
       THEN LET r == writer[client_read + 1]
            IN  /\ client_read' = client_read + 1
                /\ client_code' = r.code
                /\ client_pc' = IF r.code \in codes THEN hit ELSE miss
                /\ client_log' =
                       IF client_log = << >> THEN client_log
                       ELSE [client_log EXCEPT ![Len(client_log)].pos = client_read + 1]
                /\ peer' = peer
       ELSE /\ client_pc' = "failed"
            /\ peer' = "closed"
            /\ UNCHANGED << client_code, client_read, client_log >>
    /\ UNCHANGED << reader, writer, pc, log, Session, Filesystem, sent, data_out,
                    parked, Codec, Mocks >>

\* FtpConnection::write of one whole line, then the client is at `then`
ClientWrite(line, then) ==
    /\ sent < MaxSentClient
    /\ reader' = reader \o line
    /\ sent' = sent + 1
    /\ client_log' = Append(client_log, [line |-> line, pos |-> 0])
    /\ client_pc' = then
    /\ UNCHANGED << writer, pc, log, Session, Filesystem, peer, data_out,
                    parked, Codec, Mocks, client_code, client_read >>

\* main: connection.wait_until_code(Code::ServiceReadyForNewUser)
WaitUntilCode ==
    /\ client_pc = "connected"
    /\ ReadCmd({ServiceClosing, ServiceReadyForNewUser}, "prompt_user", "connected")

\* prompt_login: the user name is typed and written
PromptLoginUser ==
    /\ client_pc = "prompt_user"
    /\ \E name \in TypedNames :
          ClientWrite(<< "U", "S", "E", "R", " " >> \o name \o CRLF, "read_user")

\* prompt_login: the read_cmd after the user name
PromptLoginUserReply ==
    /\ client_pc = "read_user"
    /\ ReadCmd({UserNameOkPasswordNeeded}, "prompt_pass", "prompt_user")

\* prompt_login: the password is typed and written
PromptLoginPass ==
    /\ client_pc = "prompt_pass"
    /\ \E password \in TypedPasswords :
          ClientWrite(<< "P", "A", "S", "S", " " >> \o password \o CRLF, "read_pass")

\* prompt_login: the read_cmd after the password
PromptLoginPassReply ==
    /\ client_pc = "read_pass"
    /\ ReadCmd({UserLoggedIn}, "loop", "prompt_user")

\* main's loop: a line is typed and written as it is
MainWrite ==
    /\ client_pc = "loop"
    /\ \E line \in TypedLines : ClientWrite(line, "read_loop")

\* main's loop: the read_cmd after the line; the loop ends when it returns
\* false
MainRead ==
    /\ client_pc = "read_loop"
    /\ ReadCmd({ServiceClosing}, "ended", "loop")

(* --------------------------- the specification ------------------------ *)

\* one accepted connection
InitSession ==
    /\ reader = << >>
    /\ writer = << >>
    /\ path = root_path
    /\ username = None
    /\ data_type = DefaultDataType
    /\ data_structure = DefaultDataStructure
    /\ transfer_mode = DefaultTransferMode
    /\ data_connection = None
    /\ dirs = InitDirs
    /\ files = InitFiles
    /\ pc = "accepted"
    /\ peer = "open"
    /\ data_out = << >>
    /\ log = << >>
    /\ sent = 0
    /\ parked = Accepted(2)

\* the reply codec and the mock servers, not in use
InitCodecIdle ==
    /\ response = None
    /\ wire = << >>
    /\ received = None

InitMocksIdle ==
    /\ MOCK_COUNT = FirstPort
    /\ mocks = [t \in Tests |-> NotCalled]

\* the interactive client, connected and not started
InitClientIdle ==
    /\ client_pc = "connected"
    /\ client_code = 0
    /\ client_read = 0
    /\ client_log = << >>

Init == InitSession /\ InitCodecIdle /\ InitMocksIdle /\ InitClientIdle

read_cmd ==
    \/ InvalidUtf8
    \/ ShortToken
    \/ InvalidUtf8Arg
    \/ User
    \/ Pass
    \/ Cwd
    \/ Quit
    \/ Port
    \/ Type
    \/ Stru
    \/ Mode
    \/ Rmd
    \/ Mkd
    \/ Pwd
    \/ Nlst
    \/ Noop
    \/ Opts
    \/ Todo
    \/ Unrecognized

Next ==
    \/ New
    \/ read_cmd
    \/ \E line \in Lines : Send(line, MaxSent)
    \/ Close

Spec == Init /\ [][Next]_vars

\* a client that writes login lines only: the arms these lines reach
LoginLines == {
    << "U", "S", "E", "R", " ", "a" >> \o CRLF,
    << "u", "s", "e", "r", " ", "b" >> \o CRLF,
    << "U", "S", "E", "R", " ", "x" >> \o CRLF,
    << "U", "S", "E", "R" >> \o CRLF,
    << "P", "A", "S", "S", " ", "a" >> \o CRLF,
    << "P", "A", "S", "S", " ", "b" >> \o CRLF,
    << "P", "A", "S", "S", " ", "w" >> \o CRLF
}

NextLogin ==
    \/ New
    \/ ShortToken
    \/ User
    \/ Pass
    \/ \E line \in LoginLines : Send(line, MaxSentLogin)
    \/ Close

SpecLogin == Init /\ [][NextLogin]_vars

\* a client that logs in and moves through the directories
DirLines == {
    << "U", "S", "E", "R", " ", "a" >> \o CRLF,
    << "P", "A", "S", "S", " ", "a" >> \o CRLF,
    << "C", "W", "D", " ", "d" >> \o CRLF,
    << "C", "W", "D", " ", ".", "." >> \o CRLF,
    << "C", "W", "D", " ", "f" >> \o CRLF,
    << "P", "W", "D" >> \o CRLF,
    << "P", "W", "D", " ", "a", "b", "c", "1", "2", "3" >> \o CRLF
}

NextDir ==
    \/ New
    \/ ShortToken
    \/ User
    \/ Pass
    \/ Cwd
    \/ Pwd
    \/ \E line \in DirLines : Send(line, MaxSentDir)
    \/ Close

SpecDir == Init /\ [][NextDir]_vars

\* a client that names data ports, well formed or not, and asks for listings
PortLines == {
    << "P", "O", "R", "T", " ", "1", ",", "2", ",", "3", ",", "4", ",", "1", ",", "2" >> \o CRLF,
    << "P", "O", "R", "T" >> \o CRLF,
    << "P", "O", "R", "T", " ", "1", ",", "2", ",", "3", ",", "4", ",", "x", ",", "2" >> \o CRLF,
    << "P", "O", "R", "T", " ", "1", ",", "2", ",", "3", ",", "4", ",", "1", ",", "3", "0", "0" >> \o CRLF,
    << "P", "O", "R", "T", " ", "1", ",", "2", ",", "3", ",", "1", ",", "2" >> \o CRLF,
    << "P", "O", "R", "T", " ", "1", ",", "2", ",", "3", ",", "4", ",", "2", "5", "5", ",", "2", "5", "5" >> \o CRLF,
    << "P", "O", "R", "T", " ", "1", ",", "2", ",", "3", ",", "4", ",", "1", ",", "6", "5", "5", "3", "5" >> \o CRLF,
    << "N", "L", "S", "T" >> \o CRLF
}

NextPort ==
    \/ New
    \/ ShortToken
    \/ Port
    \/ Nlst
    \/ \E line \in PortLines : Send(line, MaxSentPort)
    \/ Close

SpecPort == Init /\ [][NextPort]_vars

\* a client that makes, removes and lists directories
FsLines == {
    << "M", "K", "D", " ", "n" >> \o CRLF,
    << "M", "K", "D", " ", "x", "/", "y" >> \o CRLF,
    << "R", "M", "D", " ", "d" >> \o CRLF,
    << "R", "M", "D", " ", "x" >> \o CRLF,
    << "R", "M", "D", " ", "f" >> \o CRLF,
    << "R", "M", "D", " ", "/", "s", "r", "v" >> \o CRLF,
    << "N", "L", "S", "T" >> \o CRLF,
    << "N", "L", "S", "T", " ", "x" >> \o CRLF
}

NextFs ==
    \/ New
    \/ ShortToken
    \/ Mkd
    \/ Rmd
    \/ Nlst
    \/ \E line \in FsLines : Send(line, MaxSentFs)
    \/ Close

SpecFs == Init /\ [][NextFs]_vars

\* a client that changes directory and makes and removes directories
WdLines == {
    << "C", "W", "D", " ", "d" >> \o CRLF,
    << "C", "W", "D", " ", ".", "." >> \o CRLF,
    << "C", "W", "D", " ", "/", "e", "t", "c" >> \o CRLF,
    << "R", "M", "D" >> \o CRLF,
    << "R", "M", "D", " ", ".", ".", "/", "d" >> \o CRLF,
    << "M", "K", "D", " ", "n" >> \o CRLF
}

NextWd ==
    \/ New
    \/ ShortToken
    \/ Cwd
    \/ Mkd
    \/ Rmd
    \/ \E line \in WdLines : Send(line, MaxSentWd)
    \/ Close

SpecWd == Init /\ [][NextWd]_vars

\* a client that sets the transfer parameters
ParamLines == {
    << "T", "Y", "P", "E", " ", "L", " ", "8" >> \o CRLF,
    << "T", "Y", "P", "E", " ", "L", " ", "7" >> \o CRLF,
    << "T", "Y", "P", "E", " ", "L" >> \o CRLF,
    << "T", "Y", "P", "E", " ", "l", " ", "8" >> \o CRLF,
    << "T", "Y", "P", "E", " ", "X" >> \o CRLF,
    << "T", "Y", "P", "E" >> \o CRLF,
    << "T", "Y", "P", "E", " ", "A" >> \o CRLF,
    << "T", "Y", "P", "E", " ", "a" >> \o CRLF,
    << "T", "Y", "P", "E", " ", "E" >> \o CRLF,
    << "T", "Y", "P", "E", " ", "e" >> \o CRLF,
    << "T", "Y", "P", "E", " ", "I" >> \o CRLF,
    << "T", "Y", "P", "E", " ", "i" >> \o CRLF,
    << "S", "T", "R", "U", " ", "R" >> \o CRLF,
    << "S", "T", "R", "U", " ", "X" >> \o CRLF,
    << "S", "T", "R", "U" >> \o CRLF,
    << "M", "O", "D", "E", " ", "B" >> \o CRLF,
    << "M", "O", "D", "E", " ", "X" >> \o CRLF,
    << "M", "O", "D", "E" >> \o CRLF
}

NextParams ==
    \/ New
    \/ ShortToken
    \/ Type
    \/ Stru
    \/ Mode
    \/ \E line \in ParamLines : Send(line, MaxSentParams)
    \/ Close

SpecParams == Init /\ [][NextParams]_vars

\* two clients connected at once, each writing lines that change the state
\* of its session or make a directory
TwoLines == {
    << "U", "S", "E", "R", " ", "a" >> \o CRLF,
    << "C", "W", "D", " ", "d" >> \o CRLF,
    << "T", "Y", "P", "E", " ", "I" >> \o CRLF,
    << "P", "O", "R", "T", " ", "1", ",", "2", ",", "3", ",", "4", ",", "1", ",", "2" >> \o CRLF,
    << "M", "K", "D", " ", "n" >> \o CRLF
}

NextTwo ==
    \/ New
    \/ User
    \/ Cwd
    \/ Type
    \/ Port
    \/ MkdTest
    \/ MkdCreate
    \/ \E line \in TwoLines : Send(line, MaxSentTwo)
    \/ Switch

SpecTwo == Init /\ [][NextTwo]_vars

\* test threads that each make a mock server
NextMocks ==
    \/ \E t \in Tests : FetchAdd(t)
    \/ \E t \in Tests : Bind(t)
    \/ \E t \in Tests : Connect(t)

SpecMocks == Init /\ [][NextMocks]_vars

\* a reply written by the server and read by the client
NextCodec ==
    \/ WriteResponse
    \/ ClientReadCmd

InitReply == InitSession /\ InitCodec /\ InitMocksIdle /\ InitClientIdle

SpecCodec == InitReply /\ [][NextCodec]_vars

\* the interactive client and the session that serves it; main's loop is
\* left out because prompt_login never returns against this server
\* (ClientStaysInPromptLogin), and with it the arms only its lines reach
NextClient ==
    \/ New
    \/ User
    \/ Pass
    \/ WaitUntilCode
    \/ PromptLoginUser
    \/ PromptLoginUserReply
    \/ PromptLoginPass
    \/ PromptLoginPassReply

\* the same with main's loop, to check that it is not reached
NextClientWhole ==
    \/ NextClient
    \/ Nlst
    \/ Noop
    \/ Quit
    \/ MainWrite
    \/ MainRead

SpecClientWhole == Init /\ [][NextClientWhole]_vars

SpecClient == Init /\ [][NextClient]_vars

(* ============================ properties ============================== *)

\* the codes of the replies written by the i-th run of read_cmd
Codes(i) == [k \in 1..Len(log[i].replies) |-> log[i].replies[k].code]

\* a write of the i-th run failed: the run wrote fewer replies than its arm
\* writes, which ends the loop, so it is the last run
WriteFailed(i) == i = Len(log) /\ pc = "error" /\ peer = "closed"

\* the i-th run answered with the one reply r, unless its write failed
Answered(i, r) == \/ log[i].replies = << r >>
                  \/ log[i].replies = << >> /\ WriteFailed(i)

AnsweredCode(i, c) == \/ Codes(i) = << c >>
                      \/ Codes(i) = << >> /\ WriteFailed(i)

\* the codes written by the latest run of read_cmd
LastCodes == Codes(Len(log))

Greeting == << Reply(220, "Server ready for new user."), Reply(332, "Enter username.") >>

\* the user name accepted by the last USER answered 331 before the i-th run
RECURSIVE PendingBefore(_)
PendingBefore(i) ==
    IF i <= 1 THEN None
    ELSE IF log[i - 1].command = "USER" /\ Codes(i - 1) = << 331 >>
         THEN Some(Str(log[i - 1].arg))
         ELSE PendingBefore(i - 1)

\* a PASS answered 230 before the i-th run
LoggedInBefore(i) == \E j \in 1..(i - 1) : log[j].command = "PASS" /\ Codes(j) = << 230 >>

\* C1: a 230 reply is written only by a PASS whose argument is the stored
\* password of a user name that an earlier USER of the session accepted with
\* 331; a PASS while no user name has been accepted is answered 503.
C1_LoginOnlyAfterUser ==
    \A i \in 1..Len(log) :
        /\ (\E k \in 1..Len(log[i].replies) : log[i].replies[k].code = 230)
              => /\ log[i].command = "PASS"
                 /\ \E j \in 1..(i - 1) :
                        /\ log[j].command = "USER"
                        /\ Codes(j) = << 331 >>
                        /\ Str(log[j].arg) \in DOMAIN users
                        /\ users[Str(log[j].arg)] = Str(log[i].arg)
        /\ (log[i].command = "PASS" /\ PendingBefore(i) = None)
              => AnsweredCode(i, 503)

C1_Witness ==
    \E i, j \in 1..Len(log) :
        /\ log[i].command = "PASS" /\ Codes(i) = << 503 >>
        /\ log[j].command = "PASS" /\ Codes(j) = << 230 >>

\* C2: before a PASS has been answered 230, the commands that need a login
\* have changed neither the session state nor the filesystem.
C2_NoEffectBeforeLogin ==
    ~LoggedInBefore(Len(log) + 1)
        => /\ path = root_path
           /\ data_type = DefaultDataType
           /\ data_structure = DefaultDataStructure
           /\ transfer_mode = DefaultTransferMode
           /\ data_connection = None
           /\ dirs = InitDirs
           /\ files = InitFiles

\* C3: the first two replies on the connection are 220 "Server ready for new
\* user." and 332 "Enter username.", and they are written before any command
\* is read: while the greeting is incomplete no run of read_cmd has happened.
C3_GreetingFirst ==
    /\ pc = "accepted" => writer = << >> /\ log = << >>
    /\ Len(writer) < 2 => log = << >> /\ pc \in {"accepted", "error"}
    /\ Len(writer) >= 1 => writer[1] = Greeting[1]
    /\ Len(writer) >= 2 => writer[2] = Greeting[2]
    /\ Len(writer) > 2 => log # << >>

C3_Witness ==
    /\ Len(log) = 1
    /\ Len(writer) = 3
    /\ SubSeq(writer, 1, 2) = Greeting

\* C4: on a fresh session, USER u then PASS users[u] are answered 331
\* "Username Ok. Password needed." and then 230 "Logged in.", the third and
\* fourth replies of the connection, for every user u of the store.
C4_LoginSucceeds ==
    \A u \in DOMAIN users :
        (/\ Len(log) >= 2
         /\ log[1].command = "USER" /\ Str(log[1].arg) = u
         /\ log[2].command = "PASS" /\ Str(log[2].arg) = users[u])
            => /\ Answered(1, Reply(331, "Username Ok. Password needed."))
               /\ Answered(2, Reply(230, "Logged in."))
               /\ ~WriteFailed(1) /\ ~WriteFailed(2)
                     => SubSeq(writer, 1, 4) = Greeting \o
                            << Reply(331, "Username Ok. Password needed."),
                               Reply(230, "Logged in.") >>

C4_Witness ==
    /\ Len(log) = 2
    /\ log[1].command = "USER" /\ Str(log[1].arg) = "b"
    /\ log[2].command = "PASS" /\ Str(log[2].arg) = "b"
    /\ Codes(1) = << 331 >> /\ Codes(2) = << 230 >>

C6_UserReplies ==
    /\ \A i \in 1..Len(log) :
          log[i].command = "USER"
             => IF log[i].arg = << >> THEN AnsweredCode(i, 501)
                ELSE IF Str(log[i].arg) \notin DOMAIN users
                     THEN Answered(i, Reply(530, "User does not exist."))
                     ELSE AnsweredCode(i, 331)
    /\ pc # "error" => username = PendingBefore(Len(log) + 1)

C6_Witness ==
    \E i, j, k \in 1..Len(log) :
        /\ log[i].command = "USER" /\ Codes(i) = << 501 >>
        /\ log[j].command = "USER" /\ Codes(j) = << 530 >>
        /\ log[k].command = "USER" /\ Codes(k) = << 331 >> /\ k > j /\ k > i
        /\ username = Some("a")

PwdVerbs == {"XPWD", "PWD\r", "PWD "}
CwdVerbs == {"XCWD", "CWD "}

\* the path reached by the CWD commands answered 200 before the i-th run
RECURSIVE PathBefore(_)
PathBefore(i) ==
    IF i <= 1 THEN root_path
    ELSE IF log[i - 1].command \in CwdVerbs /\ Codes(i - 1) = << 200 >>
         THEN join(PathBefore(i - 1), log[i - 1].arg)
         ELSE PathBefore(i - 1)

\* C7: PWD reports the path reached by the CWD commands answered 200; a CWD
\* whose joined path is not an existing directory is answered 501 and leaves
\* the working path as it was.
C7_PwdReportsPathReached ==
    /\ \A i \in 1..Len(log) :
          /\ log[i].command \in PwdVerbs
                => Answered(i, Reply(200, to_string_lossy(PathBefore(i))))
          /\ (log[i].command \in CwdVerbs /\ ~is_dir(join(PathBefore(i), log[i].arg)))
                => AnsweredCode(i, 501)
          /\ (log[i].command \in CwdVerbs /\ is_dir(join(PathBefore(i), log[i].arg)))
                => AnsweredCode(i, 200)
    /\ pc # "error" => path = PathBefore(Len(log) + 1)

C7_Witness ==
    /\ Len(log) = 4
    /\ log[1].command = "CWD " /\ Codes(1) = << 200 >>
    /\ log[2].command = "CWD " /\ Codes(2) = << 501 >>
    /\ log[3].command = "CWD " /\ Codes(3) = << 200 >>
    /\ log[4].replies = << Reply(200, "./d/..") >>
    /\ path = << ".", "d", ".." >>

\* C8: a PWD, with no argument or with any text after the verb, is answered
\* 200 with the string form of the working path and changes nothing of the
\* session or the filesystem; right after a login that text is the root.
C8_PwdStep ==
    /\ Len(log') = Len(log) + 1
    /\ log'[Len(log')].command \in PwdVerbs

C8_PwdIgnoresArgument ==
    /\ [][C8_PwdStep =>
            /\ UNCHANGED << Session, Filesystem >>
            /\ \/ log'[Len(log')].replies = << Reply(200, to_string_lossy(path)) >>
               \/ log'[Len(log')].replies = << >> /\ pc' = "error" /\ peer = "closed"]_vars
    /\ [](\A i \in 2..Len(log) :
            (/\ log[i].command \in PwdVerbs
             /\ log[i - 1].command = "PASS" /\ Codes(i - 1) = << 230 >>
             /\ \A j \in 1..(i - 1) : log[j].command \notin CwdVerbs)
                => Answered(i, Reply(200, to_string_lossy(root_path))))

C8_Witness ==
    /\ Len(log) = 3
    /\ log[2].command = "PASS" /\ Codes(2) = << 230 >>
    /\ log[3].command = "PWD " /\ log[3].arg # << >>
    /\ log[3].replies = << Reply(200, ".") >>

\* C9: QUIT is answered 221 and ends the loop: it is the last run of
\* read_cmd, and once the loop has ended nothing more is read or written,
\* whatever is pending on the connection.
C9_QuitEndsLoop ==
    /\ [](\A i \in 1..Len(log) :
            log[i].command = "QUIT"
               => /\ i = Len(log)
                  /\ Answered(i, Reply(221, "Goodbye!"))
                  /\ pc \in {"done", "error"}
                  /\ pc = "done" <=> Codes(i) = << 221 >>)
    /\ [][pc = "done" => UNCHANGED << reader, writer, log, pc >>]_vars

C9_Witness ==
    /\ pc = "done"
    /\ log[Len(log)].command = "QUIT"
    /\ writer[Len(writer)] = Reply(221, "Goodbye!")
    /\ reader # << >>

\* C10: once the read of the token has reached the end of input, the loop
\* has stopped, and that run of read_cmd wrote no reply.
C10_EndOfInputStopsLoop ==
    \A i \in 1..Len(log) :
        log[i].cmd_len = 0
           => /\ log[i].replies = << >>
              /\ i = Len(log)
              /\ pc # "running"

\* C11: every run of read_cmd on a verb the core does not implement is
\* answered with one reply, 502 or 500 and the same code for all such runs,
\* and the loop goes on reading commands after it.
C11_UnimplementedAnswered ==
    /\ \A i \in 1..Len(log) :
          log[i].command \in TodoVerbs
             => /\ \/ AnsweredCode(i, CommandNotImplemented)
                   \/ AnsweredCode(i, CommandUnrecognized)
                /\ (i = Len(log) /\ ~WriteFailed(i)) => pc = "running"
    /\ \A i, j \in 1..Len(log) :
          (/\ log[i].command \in TodoVerbs /\ log[j].command \in TodoVerbs
           /\ Len(Codes(i)) = 1 /\ Len(Codes(j)) = 1)
             => Codes(i) = Codes(j)

\* the argument is six comma-separated decimal octets
IsOctet(b) == IsDigits(b) /\ Len(b) <= 3 /\ DecimalValue(b) <= 255

SixOctets(arg) ==
    LET f == split(arg, ",") IN Len(f) = 6 /\ \A k \in 1..6 : IsOctet(f[k])

\* C12: a run of read_cmd on a PORT whose argument is not six
\* comma-separated decimal octets is answered 501, leaves the loop running
\* and leaves the data connection as it was.
C12_PortStep ==
    /\ Len(log') = Len(log) + 1
    /\ log'[Len(log')].command = "PORT"
    /\ ~SixOctets(log'[Len(log')].arg)

C12_MalformedPortRejected ==
    [][C12_PortStep =>
          /\ data_connection' = data_connection
          /\ \/ LastCodes' = << InvalidParametersOrArguments >> /\ pc' = "running"
             \/ log'[Len(log')].replies = << >> /\ pc' = "error" /\ peer = "closed"]_vars

\* C13: a run of read_cmd on a PORT with a well-formed argument is answered
\* 200 when the data connection was opened and 425 when it could not be,
\* and in both cases the loop goes on; only a failed write of the reply
\* ends it.
C13_ConnectFailureReported ==
    \A i \in 1..Len(log) :
        (log[i].command = "PORT" /\ SixOctets(log[i].arg))
           => \/ /\ \/ Codes(i) = << Ok >>
                    \/ Codes(i) = << CannotOpenDataConnection >>
                 /\ i = Len(log) => pc = "running"
              \/ log[i].replies = << >> /\ WriteFailed(i)

MkdVerbs == { "XMKD", "MKD ", "MKD\r" }
RmdVerbs == { "XRMD", "RMD ", "RMD\r" }

\* C14: every run of read_cmd on an NLST or an MKD, the runs whose
\* filesystem call fails included, writes a reply and leaves the loop
\* running; only a failed write ends it.
C14_FilesystemFailureAnswered ==
    \A i \in 1..Len(log) :
        log[i].command \in MkdVerbs \cup { "NLST" }
           => \/ /\ log[i].replies # << >>
                 /\ i = Len(log) => pc = "running"
              \/ WriteFailed(i)

\* C15: an MKD that follows an MKD of the same path is answered 257 as the
\* first was, does not end the loop, and leaves the filesystem as the first
\* left it.
C15_MkdRepeated ==
    /\ Len(log) >= 1
    /\ Len(log') = Len(log) + 1
    /\ log[Len(log)].command \in MkdVerbs
    /\ log'[Len(log')].command \in MkdVerbs
    /\ log'[Len(log')].arg = log[Len(log)].arg

C15_MkdIdempotent ==
    [][C15_MkdRepeated =>
          /\ LastCodes = << PathNameCreated >>
          /\ UNCHANGED Filesystem
          /\ \/ LastCodes' = << PathNameCreated >> /\ pc' = "running"
             \/ log'[Len(log')].replies = << >> /\ pc' = "error" /\ peer = "closed"]_vars

C15_Witness ==
    /\ Len(log) = 2
    /\ log[1].command = "MKD " /\ log[1].arg = << "n" >> /\ Codes(1) = << PathNameCreated >>
    /\ log[2].command = "MKD " /\ log[2].arg = << "n" >> /\ Codes(2) = << PathNameCreated >>
    /\ dirs = InitDirs \cup { << "srv", "n" >> }
    /\ pc = "running"

\* C16: an RMD is answered 550 when its path resolves to nothing, 250 when
\* the directory was removed and 450 when the path exists and nothing was
\* removed, as for a file or a directory that is not empty; with 550 and
\* 450 the filesystem is unchanged, and in all three cases the session
\* state is unchanged and the loop goes on.
C16_RmdStep ==
    /\ Len(log') = Len(log) + 1
    /\ log'[Len(log')].command \in RmdVerbs

C16_RmdReplies ==
    [][C16_RmdStep =>
          LET t == Resolve(join(path, log'[Len(log')].arg), dirs, files) IN
          /\ UNCHANGED << Session, files >>
          /\ dirs' = dirs \/ (t \in dirs /\ dirs' = dirs \ { t })
          /\ (t = NoPath \/ t \in files \/ Children(t) # {}) => dirs' = dirs
          /\ \/ /\ pc' = "running"
                /\ LastCodes' = << IF t = NoPath THEN FileUnavailable
                                   ELSE IF dirs' # dirs THEN RequestedFileActionComplete
                                   ELSE ActionNotTaken >>
             \/ log'[Len(log')].replies = << >> /\ pc' = "error" /\ peer = "closed"]_vars

C16_Witness ==
    /\ Len(log) = 3
    /\ log[1].command = "RMD " /\ Codes(1) = << RequestedFileActionComplete >>
    /\ log[2].command = "RMD " /\ Codes(2) = << FileUnavailable >>
    /\ log[3].command = "RMD " /\ Codes(3) = << ActionNotTaken >>
    /\ dirs = InitDirs \ { << "srv", "d" >> }
    /\ pc = "running"

\* the type a TYPE argument asks for, "" where it asks for none
C17_Asked(a) ==
    IF a = << >> THEN ""
    ELSE IF a[1] \in {"A", "a"} THEN "Ascii"
    ELSE IF a[1] \in {"E", "e"} THEN "Ebcdic"
    ELSE IF a[1] \in {"I", "i"} THEN "Image"
    ELSE IF a[1] = "L" /\ trim(Tail(a)) = << "8" >> THEN "LocalType"
    ELSE ""

\* C17: a TYPE is answered 501 when its argument is missing, 504 when the
\* argument starts with L and the byte size after it is not 8 or when it
\* starts with another letter than A, E, I, L, and 200 otherwise; answered
\* 200, the type of the session is the one of the letter, in upper or lower
\* case for A, E and I.
C17_TypeStep ==
    /\ Len(log') = Len(log) + 1
    /\ log'[Len(log')].command = "TYPE"

C17_TypeReplies ==
    [][C17_TypeStep =>
          LET a == log'[Len(log')].arg IN
          \/ /\ pc' = "running"
             /\ LastCodes' = << IF a = << >> THEN InvalidParametersOrArguments
                                ELSE IF C17_Asked(a) = ""
                                THEN CommandNotImplementedForThatParameter
                                ELSE Ok >>
             /\ C17_Asked(a) # "" => data_type' = C17_Asked(a)
          \/ log'[Len(log')].replies = << >> /\ pc' = "error" /\ peer = "closed"]_vars

C17_Witness ==
    /\ Len(log) = 2
    /\ log[1].command = "TYPE" /\ log[1].arg = << "e" >> /\ Codes(1) = << Ok >>
    /\ log[2].command = "TYPE" /\ log[2].arg = << "L", " ", "7" >>
    /\ Codes(2) = << CommandNotImplementedForThatParameter >>
    /\ data_type = "Ebcdic"

ParamVerbs == { "TYPE", "STRU", "MODE" }

\* C18: the three transfer parameters always hold one of their values, and
\* the type is LocalType only after a TYPE L with byte size 8; a TYPE, STRU
\* or MODE answered 501 or 504 changes none of the three, one answered 200
\* changes at most its own, and no other step changes any of them.
C18_Params == << data_type, data_structure, transfer_mode >>

C18_ParamStep ==
    /\ Len(log') = Len(log) + 1
    /\ log'[Len(log')].command \in ParamVerbs

C18_ParametersValid ==
    /\ [](/\ data_type \in {"Ascii", "Ebcdic", "Image", "LocalType"}
          /\ data_structure \in {"Files", "Record", "Page"}
          /\ transfer_mode \in {"Stream", "Block", "Compressed"}
          /\ data_type = "LocalType"
                => \E i \in 1..Len(log) :
                      /\ log[i].command = "TYPE"
                      /\ log[i].arg # << >> /\ log[i].arg[1] = "L"
                      /\ trim(Tail(log[i].arg)) = << "8" >>)
    /\ [][C18_Params' # C18_Params => C18_ParamStep]_vars
    /\ [][C18_ParamStep =>
            LET verb == log'[Len(log')].command IN
            /\ LastCodes' \in { << InvalidParametersOrArguments >>,
                                << CommandNotImplementedForThatParameter >> }
                  => UNCHANGED C18_Params
            /\ verb = "TYPE" => UNCHANGED << data_structure, transfer_mode >>
            /\ verb = "STRU" => UNCHANGED << data_type, transfer_mode >>
            /\ verb = "MODE" => UNCHANGED << data_type, data_structure >>]_vars

C18_Witness ==
    /\ Len(log) = 2
    /\ log[1].command = "TYPE" /\ log[1].arg = << "L", " ", "8" >> /\ Codes(1) = << Ok >>
    /\ log[2].command = "STRU" /\ log[2].arg = << "X" >>
    /\ Codes(2) = << CommandNotImplementedForThatParameter >>
    /\ C18_Params = << "LocalType", DefaultDataStructure, DefaultTransferMode >>

\* C19: a run of read_cmd that reads a 4-byte token of text naming no
\* command, followed by a line of text, is answered 500 and changes nothing
\* of the session state or the filesystem; the loop goes on.
C19_UnknownTokenStep ==
    /\ Len(log') = Len(log) + 1
    /\ cmd_len = 4
    /\ from_utf8_ok(TokenBytes)
    /\ command \notin KnownVerbs
    /\ TooShort \/ from_utf8_ok(ArgLine)

C20_InvalidTokenStep ==
    /\ Len(log') = Len(log) + 1
    /\ cmd_len > 0
    /\ ~from_utf8_ok(TokenBytes)

C20_InvalidTokenAnswered ==
    [][C20_InvalidTokenStep =>
          /\ UNCHANGED << Session, Filesystem >>
          /\ \/ LastCodes' = << CommandNotImplemented >> /\ pc' = "running"
             \/ log'[Len(log')].replies = << >> /\ pc' = "error" /\ peer = "closed"]_vars

C20_Witness ==
    /\ Len(log) = 2
    /\ log[1].cmd_len = 4 /\ log[1].command = ""
    /\ log[1].replies = << Reply(CommandNotImplemented, "Command was not valid UTF-8.") >>
    /\ Len(log[2].replies) = 1
    /\ pc = "running"

\* a run of read_cmd on an NLST
NlstStep ==
    /\ Len(log') = Len(log) + 1
    /\ log'[Len(log')].command = "NLST"

\* the PORT runs that opened a data connection
Opened == { i \in 1..Len(log) : log[i].command = "PORT" /\ Codes(i) = << Ok >> }

\* C21: a data connection carries one payload: only an NLST that holds a
\* data connection writes a payload, it writes on the connection it holds
\* and holds none afterwards; an NLST that holds none writes no payload; so
\* no more payloads are written than connections were opened.
C21_SingleUse ==
    /\ [][data_out' # data_out =>
            /\ NlstStep
            /\ data_connection # None
            /\ data_connection' = None
            /\ Len(data_out') = Len(data_out) + 1
            /\ SubSeq(data_out', 1, Len(data_out)) = data_out
            /\ data_out'[Len(data_out')].connection = data_connection[1]]_vars
    /\ [][(NlstStep /\ pc' = "running") => data_connection' = None]_vars
    /\ [][(NlstStep /\ data_connection = None) => data_out' = data_out]_vars
    /\ [](Len(data_out) <= Cardinality(Opened))

C21_Witness ==
    /\ Len(log) = 3
    /\ log[1].command = "PORT" /\ Codes(1) = << Ok >>
    /\ log[2].command = "NLST" /\ Codes(2) = << FileStatusOk, ClosingDataConnection >>
    /\ log[3].command = "NLST" /\ Codes(3) = << FileStatusOk, CannotOpenDataConnection >>
    /\ Len(data_out) = 1
    /\ data_connection = None

\* C25: every run of read_cmd that finds a complete line at the head of its
\* input consumes that line and nothing else: what is left to read is what
\* followed the first line terminator.
C25_OneLinePerIteration ==
    [][(Len(log') = Len(log) + 1 /\ HasNewline(reader))
          => reader' = SubSeq(reader, LineLen(reader) + 1, Len(reader))]_vars

\* the payload is the names of S in some order, each followed by CRLF, or
\* CRLF alone when S is empty
C26_IsListing(b, S) ==
    IF S = {} THEN b = CRLF
    ELSE /\ Len(b) = 3 * Cardinality(S)
         /\ { b[3 * k - 2] : k \in 1..Cardinality(S) } = S
         /\ \A k \in 1..Cardinality(S) : b[3 * k - 1] = "\r" /\ b[3 * k] = "\n"

C27_NlstWithoutConnection ==
    [][(NlstStep /\ data_connection = None /\ is_dir(join(path, log'[Len(log')].arg))) =>
          \/ LastCodes' = << CannotOpenDataConnection >> /\ pc' = "running"
          \/ LastCodes' = << >> /\ pc' = "error" /\ peer = "closed"]_vars

\* C28: a PORT whose argument is six octets h1,h2,h3,h4,p1,p2 never panics,
\* and the data connection it opens is to port p1 * 256 + p2, a value of
\* the 16-bit port type.
C28_PortStep ==
    /\ Len(log') = Len(log) + 1
    /\ log'[Len(log')].command = "PORT"
    /\ SixOctets(log'[Len(log')].arg)

C28_PortValue ==
    [][C28_PortStep =>
          LET f == split(log'[Len(log')].arg, ",") IN
          /\ pc' # "panicked"
          /\ DecimalValue(f[5]) * 256 + DecimalValue(f[6]) < 65536
          /\ LastCodes' = << Ok >>
                => /\ data_connection' # None
                   /\ data_connection'[1].port = DecimalValue(f[5]) * 256 + DecimalValue(f[6])
                   /\ data_connection'[1].ip = Str(JoinDot(SubSeq(f, 1, 4)))]_vars

C28_Witness ==
    /\ Len(log) = 2
    /\ log[1].command = "PORT" /\ Codes(1) = << Ok >>
    /\ log[1].arg = << "1", ",", "2", ",", "3", ",", "4", ",", "1", ",", "2" >>
    /\ log[2].command = "PORT" /\ Codes(2) = << Ok >>
    /\ log[2].arg = << "1", ",", "2", ",", "3", ",", "4", ",",
                       "2", "5", "5", ",", "2", "5", "5" >>
    /\ data_connection = Some([ip |-> "1.2.3.4", port |-> 65535])

\* the session with the identity i, running or not
SessionOf(i) == IF parked.id = i THEN parked ELSE Running

\* the fields of the session i that its commands set
FieldsOf(i) ==
    << SessionOf(i).username, SessionOf(i).path, SessionOf(i).data_type,
       SessionOf(i).data_structure, SessionOf(i).transfer_mode,
       SessionOf(i).data_connection >>

C30_ConcurrentMkd ==
    \A i \in {1, 2} :
        \A k \in 1..Len(SessionOf(i).log) :
            SessionOf(i).log[k].command \in MkdVerbs
               => /\ SessionOf(i).log[k].replies # << >>
                  /\ SessionOf(i).log[k].replies[1].code = PathNameCreated
                  /\ SessionOf(i).pc \notin {"error", "panicked"}

\* the test threads that have got their port from MOCK_COUNT
Called == { t \in Tests : mocks[t].stage # "idle" }

\* C24: the calls of MockFtpServer::new, in whatever order their steps
\* interleave, get ports from MOCK_COUNT that differ from call to call, and
\* no server's bind finds its port taken by another mock server.
C24_UniquePorts ==
    /\ \A t, u \in Called : t # u => mocks[t].port # mocks[u].port
    /\ \A t \in Tests : mocks[t].server # "panicked"

C24_Witness ==
    /\ Called = Tests
    /\ { mocks[t].port : t \in Tests } = FirstPort..(FirstPort + MaxTests - 1)
    /\ \A t \in Tests : mocks[t].server = "listening"

\* the bytes of a reply as C23 describes them, from the code and the lines
C23_Code == to_decimal(response[1].code)

RECURSIVE C23_Continuation(_)
C23_Continuation(lines) ==
    IF lines = << >> THEN << >>
    ELSE (IF lines[1] # << >> /\ lines[1][1] \in { Digits[k] : k \in 1..10 }
          THEN << " ", " " >> ELSE << >>)
         \o lines[1] \o << "\r", "\n" >> \o C23_Continuation(Tail(lines))

\* C23: the bytes written for a reply are the code, a space, the text and
\* CRLF when the text is one line; for a text of several lines they are the
\* code and "-", every line but the last followed by CRLF, with two spaces
\* before a line that starts with a digit, and then the code, a space, the
\* last line and CRLF.
C23_Encoding ==
    wire # << >> =>
        LET lines == response[1].lines
            n == Len(lines)
        IN  wire = IF n = 1
                   THEN C23_Code \o << " " >> \o lines[1] \o << "\r", "\n" >>
                   ELSE C23_Code \o << "-" >> \o C23_Continuation(SubSeq(lines, 1, n - 1))
                        \o C23_Code \o << " " >> \o lines[n] \o << "\r", "\n" >>

C23_Witness ==
    /\ response = Some([code |-> 200,
                        lines |-> << << "a" >>, << "2", "x" >>, << "2", "0", "0", " ", "b" >> >>])
    /\ wire = << "2", "0", "0", "-", "a", "\r", "\n",
                 " ", " ", "2", "x", "\r", "\n",
                 "2", "0", "0", " ", "2", "0", "0", " ", "b", "\r", "\n" >>

\* C29: the client's read_cmd, given the bytes write_response wrote for a
\* reply, returns having consumed all of them and no more, and the line it
\* stopped at is the last line of the reply, whatever the lines before it.
C29_DecodeInvertsEncode ==
    received # None =>
        /\ received[1].outcome = "read"
        /\ received[1].consumed = Len(wire)
        /\ received[1].last = C23_Code \o << " " >>
                                \o response[1].lines[Len(response[1].lines)] \o << "\r", "\n" >>

C29_Witness ==
    /\ response = Some([code |-> 200,
                        lines |-> << << "a" >>, << "2", "0", "0", " ", "b" >>, << "a" >> >>])
    /\ received # None
    /\ received[1].outcome = "read"
    /\ received[1].consumed = Len(wire)
    /\ received[1].last = << "2", "0", "0", " ", "a", "\r", "\n" >>

\* C31: in every state of a session that is alone on the filesystem, the
\* working path names a directory that exists.
C31_WorkingPathExists == is_dir(path)

\* C32: in every state the working path names the root or a directory below
\* it: the directory it resolves to has the root's directory as a prefix.
C32_WithinRoot ==
    LET r == Resolve(root_path, dirs, files)
        p == Resolve(path, dirs, files)
    IN  p # NoPath => Len(p) >= Len(r) /\ SubSeq(p, 1, Len(r)) = r

\* a run of USER that was answered 501 or 530
C33_FailedUser(i) ==
    /\ log[i].command = "USER"
    /\ Codes(i) \in { << 501 >>, << 530 >> }

ClientStaysInPromptLogin == client_pc \notin {"loop", "read_loop", "ended"}

\* the number of replies written before those of the n-th run of read_cmd
RECURSIVE RepliesBefore(_)
RepliesBefore(n) ==
    IF n <= 1 THEN Len(Greeting) ELSE RepliesBefore(n - 1) + Len(log[n - 1].replies)

\* the session was logged in before the n-th line arrived
C34_LoggedIn(n) ==
    \E j \in 1..(n - 1) :
        j <= Len(log) /\ log[j].command = "PASS" /\ Codes(j) = << 230 >>

\* the reply the client read after its n-th line is one the server wrote
\* for that line
C34_InStep(n) ==
    /\ n <= Len(log)
    /\ client_log[n].pos > RepliesBefore(n)
    /\ client_log[n].pos <= RepliesBefore(n) + Len(log[n].replies)

\* C34: once the session is logged in, the reply the client reads after
\* writing its n-th line is the server's reply to that line, and the client's
\* loop has ended only when the line written last was QUIT and the reply
\* read for it was the server's 221 to it.
C34_LockStep ==
    /\ \A n \in 1..Len(client_log) :
          (C34_LoggedIn(n) /\ client_log[n].pos # 0) => C34_InStep(n)
    /\ client_pc = "ended"
          => /\ client_log # << >>
             /\ client_log[Len(client_log)].line = << "Q", "U", "I", "T" >> \o CRLF
             /\ C34_InStep(Len(client_log))
             /\ client_code = ServiceClosing

====
